---- MODULE Spec2Model ----
(***************************************************************************)
(* Model of the media-collection editor of arrankar-vehiculos-app:         *)
(* the ImageUploader component (app/components/ImageUploader.tsx).         *)
(*                                                                         *)
(* The component keeps two pieces of React state, orderedImages and        *)
(* imagesToDelete, and one ref, isInitialized.  Every handler reads the    *)
(* orderedImages value, and the image objects, captured by the closure of  *)
(* the last render (the variable rendered) and applies a functional        *)
(* update to the current state (the variable orderedImages).               *)
(*                                                                         *)
(* Spec, SpecRefresh, SpecEmpty: every event is followed by its render,    *)
(*   so a handler is always called on an image of the current collection.  *)
(* SpecStale: a handler may run again before the next render, on the       *)
(*   image objects of the earlier one; this is where a handler meets an    *)
(*   identity that is no longer in the collection.                         *)
(***************************************************************************)
EXTENDS Integers, Sequences, FiniteSets, TLC

(* ---- bounds ---------------------------------------------------------- *)
MaxExisting == 1      \* persisted rows a snapshot can hold
MaxNew == 2           \* files selected during one session
MaxFiles == 2         \* files of one selection
MaxDeletions == 3     \* cap of the pending-deletion list
MaxRevoke == 2        \* cap of revokeObjectURL calls per preview
ScenarioRows == 3     \* persisted rows of the reorder scenario
MaxMeta == 2          \* entries of a submitted orderedImagesMetadata
MaxDel == 1           \* entries of a submitted imageIdsToDelete
MaxBadFields == 1     \* parent fields of a request that are not well filled
MaxSubmits == 2       \* calls of submit() during one session

VARIABLES
    orderedImages,    \* useState<ImageUploaderImage[]>
    imagesToDelete,   \* useState<{id, storage_id}[]>
    isInitialized,    \* useRef(false).current
    existingImages,   \* the existingImages prop
    revoked,          \* number of URL.revokeObjectURL calls per preview
    nextUuid,         \* next value generateUUID / createObjectURL mints
    rendered,         \* orderedImages as captured by the handlers' closure
    aliased,          \* rendered holds the very objects of orderedImages
    crashed,          \* a render threw (an undefined entry in the list)
    seeded,           \* rows loaded by the initialisation effect
    last,             \* the last call: its name and arguments
    imageUploaderData,\* the parent's useState<ImageUploaderChanges | null>:
                      \* <<>> is null, <<changes>> the last emitted change-set
    formData,         \* the form data of the request the action serves
    pc,               \* the position of the action in its code
    response,         \* what the action returned
    vehiculos,        \* table vehiculos: <<>> or the row of this request
    images,           \* table images
    bucket,           \* bucket imagen-vehiculo: the paths holding an object
    ops,              \* the promises given to Promise.allSettled
    urlImgWrites,     \* updates of url_img the action has issued
    consoleErrors,    \* the console.error lines written inside the promises
    currentStep,      \* useState(1): the step of the form on display
    showLoadingToast, \* useState(false)
    navigateTimer,    \* the setTimeout of handleToastComplete is pending
    location,         \* the route the browser displays
    actionData,       \* useActionData(): the answer the page has received
    submits           \* calls of submit() made by the page

vars == <<orderedImages, imagesToDelete, isInitialized, existingImages,
          revoked, nextUuid, rendered, aliased, crashed, seeded, last,
          imageUploaderData, formData, pc, response, vehiculos, images,
          bucket, ops, urlImgWrites, consoleErrors, currentStep,
          showLoadingToast, navigateTimer, location, actionData, submits>>

actionVars == <<formData, pc, response, vehiculos, images, bucket, ops,
                urlImgWrites, consoleErrors>>

pageVars == <<currentStep, showLoadingToast, navigateTimer, location,
              actionData, submits>>

clientVars == <<orderedImages, imagesToDelete, isInitialized, existingImages,
                revoked, nextUuid, rendered, aliased, crashed, seeded, last,
                imageUploaderData>>

(* ---- values ---------------------------------------------------------- *)
RowId(k) == <<"row", k>>
StorageKey(k) == <<"key", k>>
RemoteUrl(k) == <<"http", k>>
Uuid(n) == <<"uuid", n>>
BlobUrl(n) == <<"blob", n>>
FileOf(n) == <<"file", n>>
NoFile == <<"none", 0>>
NoOrderIndex == 0 - 1
Null == <<"null", 0>>
Undefined == <<"undefined", 0>>

Range(s) == {s[i] : i \in 1..Len(s)}

\* order_index arrives as a decimal string; a string is its digits
RECURSIVE Digits(_)
Digits(n) == IF n < 10 THEN <<n>> ELSE Append(Digits(n \div 10), n % 10)

RECURSIVE ParseInt(_)
ParseInt(s) ==
    IF s = <<>> THEN 0
    ELSE ParseInt(SubSeq(s, 1, Len(s) - 1)) * 10 + s[Len(s)]

\* a row of the existingImages prop
ExistingRow(k, oi, d) ==
    [id |-> RowId(k), url |-> RemoteUrl(k), storage_id |-> StorageKey(k),
     order_index |-> oi, destacada |-> d]

\* the order_index values of k rows: distinct, as the server action writes
\* them (position + 1), with a gap up to a two-digit value
OrderIndexes(k) == {Digits(n) : n \in (2..k) \cup {10}}

\* the snapshots the server action can have written for one vehicle:
\* rows 1..k in any stored order, at most one row flagged destacada (none
\* when the upload of the featured image failed)
Snapshots ==
    UNION {
      { [i \in 1..k |-> ExistingRow(i, oi[i], i = f)] :
            oi \in {o \in [1..k -> OrderIndexes(k)] :
                        \A i, j \in 1..k : o[i] = o[j] => i = j},
            f \in 0..k }
      : k \in 0..MaxExisting }

\* the entry arrayMove leaves when its from index is out of range
UndefinedImg ==
    [id |-> Undefined, storage_id |-> Undefined,
     url |-> Undefined, order_index |-> NoOrderIndex,
     destacada |-> FALSE, isNew |-> FALSE, file |-> NoFile]

(* ---- pure helpers ---------------------------------------------------- *)
\* Array.prototype.sort with (a, b) => parseInt(a) - parseInt(b): stable
RECURSIVE InsertByOrder(_, _)
InsertByOrder(sorted, x) ==
    IF sorted = <<>> THEN <<x>>
    ELSE IF ParseInt(sorted[Len(sorted)].order_index) <= ParseInt(x.order_index)
         THEN Append(sorted, x)
         ELSE Append(InsertByOrder(SubSeq(sorted, 1, Len(sorted) - 1), x),
                     sorted[Len(sorted)])

RECURSIVE SortByOrder(_)
SortByOrder(s) ==
    IF s = <<>> THEN <<>>
    ELSE InsertByOrder(SortByOrder(SubSeq(s, 1, Len(s) - 1)), s[Len(s)])

\* .map(img => ({...img, order_index: parseInt(..), isNew: false}))
SeedImage(row) ==
    [id |-> row.id, storage_id |-> row.storage_id, url |-> row.url,
     order_index |-> ParseInt(row.order_index), destacada |-> row.destacada,
     isNew |-> FALSE, file |-> NoFile]

\* findIndex, 0-based, -1 when absent
FindIndex(s, id) ==
    IF \E i \in 1..Len(s) : s[i].id = id
    THEN (CHOOSE i \in 1..Len(s) :
              s[i].id = id /\ \A j \in 1..(i - 1) : s[j].id # id) - 1
    ELSE 0 - 1

\* splice(at, 0, x) on a list: at is clamped to the length
InsertAt(s, at, x) ==
    LET p == IF at > Len(s) THEN Len(s) ELSE at
    IN  SubSeq(s, 1, p) \o <<x>> \o SubSeq(s, p + 1, Len(s))

\* mutant: the two entries are exchanged
ArrayMoveSwap(s, from, to) ==
    IF from < Len(s) /\ to < Len(s)
    THEN [s EXCEPT ![from + 1] = s[to + 1], ![to + 1] = s[from + 1]]
    ELSE s

\* arrayMove of @dnd-kit/sortable, 0-based from and to (both >= 0 here)
ArrayMove(s, from, to) ==
    IF from < Len(s)
    THEN InsertAt(SubSeq(s, 1, from) \o SubSeq(s, from + 2, Len(s)),
                  to, s[from + 1])
    ELSE InsertAt(s, to, UndefinedImg)

SetFlag(s, i, d) == [s EXCEPT ![i] = [@ EXCEPT !.destacada = d]]

\* mutant: the storage key of the image is compared with the id
FilterByStorageId(s, id) == SelectSeq(s, LAMBDA img : img.storage_id # id)

Filter(s, id) == SelectSeq(s, LAMBDA img : img.id # id)

(* ---- the request of the action and the two stores -------------------- *)
StringFields == {"marca", "modelo", "version", "combustible", "color",
                 "transmision", "carroceria", "traccion"}
NumericFields == {"anio", "puertas", "km", "precio", "cilindraje"}
Fields == StringFields \cup {"placa"} \cup NumericFields

\* formData.get(name): a text, a sequence of characters, or null
Text(t) == [present |-> TRUE, text |-> t]
Absent == [present |-> FALSE, text |-> <<>>]

DigitChars == <<"0", "1", "2", "3", "4", "5", "6", "7", "8", "9">>
IsDigit(c) == \E d \in 1..10 : DigitChars[d] = c
DigitValue(c) == (CHOOSE d \in 1..10 : DigitChars[d] = c) - 1

\* String.prototype.trim
RECURSIVE Trim(_)
Trim(t) ==
    IF t = <<>> THEN <<>>
    ELSE IF t[1] = " " THEN Trim(Tail(t))
    ELSE IF t[Len(t)] = " " THEN Trim(SubSeq(t, 1, Len(t) - 1))
    ELSE t

RECURSIVE Decimal(_)
Decimal(t) ==
    IF t = <<>> THEN 0
    ELSE Decimal(SubSeq(t, 1, Len(t) - 1)) * 10 + DigitValue(t[Len(t)])

\* Number(raw): null and blank text give 0, a decimal numeral its value,
\* any other text NaN
Number(raw) ==
    IF ~raw.present \/ Trim(raw.text) = <<>>
    THEN [nan |-> FALSE, value |-> 0]
    ELSE IF \A i \in 1..Len(Trim(raw.text)) : IsDigit(Trim(raw.text)[i])
         THEN [nan |-> FALSE, value |-> Decimal(Trim(raw.text))]
         ELSE [nan |-> TRUE, value |-> 0]

\* mutant: the numeric fields are tested like the text fields
ValidationErrorsNoNaN(fields) ==
    {f \in Fields : ~fields[f].present \/ fields[f].text = <<>>}
      \cup (IF Trim(fields["placa"].text) = <<>> THEN {"placa"} ELSE {})

\* the keys of the errors object
ValidationErrors(fields) ==
    {f \in StringFields : ~fields[f].present \/ fields[f].text = <<>>}
      \cup (IF ~fields["placa"].present \/ Trim(fields["placa"].text) = <<>>
            THEN {"placa"} ELSE {})
      \cup {f \in NumericFields :
               \/ ~fields[f].present
               \/ fields[f].text = <<>>
               \/ Number(fields[f]).nan}

\* a form whose fields are all filled
FilledFields ==
    [f \in Fields |-> IF f \in NumericFields THEN Text(<<"1", "2">>)
                      ELSE Text(<<"a">>)]

\* what a field that is not well filled can hold
BadValues(f) ==
    IF f \in NumericFields THEN {Absent, Text(<<>>), Text(<<"a">>)}
    ELSE IF f = "placa" THEN {Absent, Text(<<>>), Text(<<" ">>)}
    ELSE {Absent, Text(<<>>)}

\* the forms with at most k fields not well filled
RECURSIVE FieldMaps(_)
FieldMaps(k) ==
    IF k = 0 THEN {FilledFields}
    ELSE FieldMaps(k - 1) \cup
         UNION {UNION {{[g EXCEPT ![f] = v] : v \in BadValues(f)} :
                          f \in Fields} :
                   g \in FieldMaps(k - 1)}

\* entry i of a submitted orderedImagesMetadata, as JSON.stringify writes
\* it: id and url are left out for a new image
MetaEntry(i, isNew, destacada) ==
    IF isNew
    THEN [id |-> Undefined, storage_id |-> Uuid(i), order_index |-> i,
          isNew |-> TRUE, destacada |-> destacada, url |-> Undefined]
    ELSE [id |-> RowId(i), storage_id |-> StorageKey(i), order_index |-> i,
          isNew |-> FALSE, destacada |-> destacada, url |-> RemoteUrl(i)]

MetadataLists ==
    UNION {{[i \in 1..n |-> MetaEntry(i, new[i], d[i])] :
               new \in [1..n -> BOOLEAN], d \in [1..n -> BOOLEAN]} :
           n \in 0..MaxMeta}

\* the rows named by imageIdsToDelete are not in orderedImagesMetadata
DeletionLists ==
    {[j \in 1..n |-> [id |-> RowId(MaxMeta + j),
                      storage_id |-> StorageKey(MaxMeta + j)]] :
        n \in 0..MaxDel}

\* a JSON field of the form: not sent, sent with a text JSON.parse
\* rejects, or sent with the text of a list
NotSent == [present |-> FALSE, wellFormed |-> TRUE, value |-> <<>>]
Malformed == [present |-> TRUE, wellFormed |-> FALSE, value |-> <<>>]
Json(list) == [present |-> TRUE, wellFormed |-> TRUE, value |-> list]

\* mutant: a text that does not parse is read as the empty list
JsonParseLenient(field) ==
    IF ~field.present THEN [ok |-> TRUE, value |-> <<>>]
    ELSE [ok |-> TRUE, value |-> field.value]

\* JSON.parse(formData.get(name) as string || "[]")
JsonParse(field) ==
    IF ~field.present THEN [ok |-> TRUE, value |-> <<>>]
    ELSE IF field.wellFormed THEN [ok |-> TRUE, value |-> field.value]
    ELSE [ok |-> FALSE, value |-> <<>>]

NewStorageIds(list) ==
    {list[i].storage_id : i \in {j \in 1..Len(list) : list[j].isNew}}

\* the requests of a well-filled form: any two JSON fields, every new
\* image with or without its file
FilledRequests(fields) ==
    UNION {{[fields |-> fields, orderedImagesMetadata |-> m,
             imageIdsToDelete |-> d, files |-> fs] :
               d \in {NotSent, Malformed} \cup {Json(l) : l \in DeletionLists},
               fs \in SUBSET NewStorageIds(m.value)} :
           m \in {NotSent, Malformed} \cup {Json(l) : l \in MetadataLists}}

\* the requests of the other forms: each JSON field does not parse or
\* holds a list of the greatest length, the images all new and sent with
\* their files
UnfilledRequests(k) ==
    UNION {{[fields |-> f, orderedImagesMetadata |-> m,
             imageIdsToDelete |-> d, files |-> NewStorageIds(m.value)] :
               f \in FieldMaps(k) \ {FilledFields},
               d \in {Malformed} \cup
                       {Json(l) : l \in {x \in DeletionLists :
                                            Len(x) = MaxDel}}} :
           m \in {Malformed} \cup
                   {Json(l) : l \in {x \in MetadataLists :
                                        /\ Len(x) = MaxMeta
                                        /\ \A i \in 1..Len(x) : x[i].isNew}}}

\* the vehicle the action creates and the one the persisted images belong to
NewVehicleId == <<"vehiculo", 2>>
OtherVehicleId == <<"vehiculo", 1>>

\* `${vehicleId}/${storage_id}` and its public URL
FilePath(vehicleId, storage_id) == <<vehicleId, storage_id>>
PublicUrl(filePath) == <<"public", filePath>>

\* String(order_index) and the stored text of destacada
DestacadaText(d) == IF d THEN "true" ELSE "false"

ImageRow(id, storage_id, vehicle, order_index, destacada) ==
    [id |-> id, storage_id |-> storage_id, vehicle_id |-> vehicle,
     url |-> IF id[1] = "row" THEN RemoteUrl(id[2])
             ELSE PublicUrl(FilePath(vehicle, storage_id)),
     order_index |-> Digits(order_index),
     destacada |-> DestacadaText(destacada)]

\* the stores before the request: the persisted images a request can name,
\* each with its object
InitialImages ==
    {ImageRow(RowId(k), StorageKey(k), OtherVehicleId, k, FALSE) :
        k \in 1..(MaxMeta + MaxDel)}

InitialBucket ==
    {FilePath(OtherVehicleId, StorageKey(k)) : k \in 1..(MaxMeta + MaxDel)}

NoResponse == [kind |-> "none", errors |-> {}]

\* the component on its own: no request is served and the stores are
\* out of the picture
ActionIdle ==
    /\ formData = <<>>
    /\ pc = "idle"
    /\ response = NoResponse
    /\ vehiculos = <<>>
    /\ images = {}
    /\ bucket = {}
    /\ ops = <<>>
    /\ urlImgWrites = 0
    /\ consoleErrors = {}

\* the page of vehiculos.nuevo.tsx at its third step, before any submit
Editor == "/vehiculos/nuevo"
Listing == "/vehiculos"

PageIdle ==
    /\ currentStep = 3
    /\ showLoadingToast = FALSE
    /\ navigateTimer = FALSE
    /\ location = Editor
    /\ actionData = NoResponse
    /\ submits = 0

(* ---- initial state --------------------------------------------------- *)
\* the component before its first effect, given the possible values of
\* the existingImages prop
InitClient(snapshots) ==
    /\ orderedImages = <<>>
    /\ imagesToDelete = <<>>
    /\ isInitialized = FALSE
    /\ existingImages \in snapshots
    /\ revoked = [n \in 1..MaxNew |-> 0]
    /\ nextUuid = 1
    /\ rendered = <<>>
    /\ aliased = TRUE
    /\ crashed = FALSE
    /\ seeded = {}
    /\ last = [op |-> "init", a |-> Null, b |-> Null]
    /\ imageUploaderData = <<>>

Init ==
    /\ InitClient(Snapshots)
    /\ ActionIdle
    /\ PageIdle

\* three persisted rows in stored order 1, 2, 3, the second one featured
ScenarioSnapshot ==
    [i \in 1..ScenarioRows |-> ExistingRow(i, Digits(i), i = 2)]

InitReorder ==
    /\ InitClient({ScenarioSnapshot})
    /\ ActionIdle
    /\ PageIdle

\* the component as vehiculos.nuevo.tsx mounts it: no existingImages prop
InitEmpty ==
    /\ Init
    /\ existingImages = <<>>

(* ---- the initialisation effect --------------------------------------- *)
\* mutant: the effect without its isInitialized guard
seedEffectUnguarded(snap) ==
    /\ IF Len(snap) > 0
       THEN /\ orderedImages' = [i \in 1..Len(snap) |->
                                    SeedImage(SortByOrder(snap)[i])]
            /\ existingImages' = SortByOrder(snap)
            /\ seeded' = {[id |-> snap[i].id,
                           storage_id |-> snap[i].storage_id] :
                              i \in 1..Len(snap)}
       ELSE /\ orderedImages' = orderedImages
            /\ existingImages' = snap
            /\ seeded' = seeded
    /\ isInitialized' = TRUE

seedEffect(snap) ==
    IF ~isInitialized
    THEN /\ IF Len(snap) > 0
            THEN /\ orderedImages' = [i \in 1..Len(snap) |->
                                         SeedImage(SortByOrder(snap)[i])]
                 /\ existingImages' = SortByOrder(snap)
                 /\ seeded' = {[id |-> snap[i].id,
                                 storage_id |-> snap[i].storage_id] :
                                    i \in 1..Len(snap)}
            ELSE /\ orderedImages' = orderedImages
                 /\ existingImages' = snap
                 /\ seeded' = seeded
         /\ isInitialized' = TRUE
    ELSE /\ orderedImages' = orderedImages
         /\ existingImages' = snap
         /\ seeded' = seeded
         /\ isInitialized' = isInitialized

(* ---- the onImagesChange effect --------------------------------------- *)
\* mutant: the stored order_index of the image in place of its position
ImageMetadataStoredIndex(img, index) ==
    [id |-> IF img.isNew THEN Undefined ELSE img.id,
     storage_id |-> img.storage_id,
     order_index |-> img.order_index,
     isNew |-> img.isNew,
     destacada |-> img.destacada,
     url |-> IF img.isNew THEN Undefined ELSE img.url]

\* the metadata object of the image at the 0-based position index
ImageMetadata(img, index) ==
    [id |-> IF img.isNew THEN Undefined ELSE img.id,
     storage_id |-> img.storage_id,
     order_index |-> index + 1,
     isNew |-> img.isNew,
     destacada |-> img.destacada,
     url |-> IF img.isNew THEN Undefined ELSE img.url]

\* orderedImages.map((img, index) => metadata)
OrderedImagesMetadata(imgs) ==
    [i \in 1..Len(imgs) |-> ImageMetadata(imgs[i], i - 1)]

\* mutant: every image is put into the Map, new or not
FilesToUploadEveryImage(imgs) ==
    {<<imgs[i].storage_id, imgs[i].file>> : i \in 1..Len(imgs)}

\* the Map filled by filesToUpload.set(img.storage_id, img.file), as its
\* set of <<key, value>> entries: a later set of the same key replaces
\* the earlier one
FilesToUpload(imgs) ==
    {<<imgs[i].storage_id, imgs[i].file>> :
        i \in {k \in 1..Len(imgs) :
                 /\ imgs[k].isNew
                 /\ imgs[k].file # NoFile
                 /\ \A j \in (k + 1)..Len(imgs) :
                       ~(/\ imgs[j].isNew
                         /\ imgs[j].file # NoFile
                         /\ imgs[j].storage_id = imgs[k].storage_id)}}

\* the change-set handed to onImagesChange
ImageUploaderChanges(imgs, deletions) ==
    [orderedImagesMetadata |-> OrderedImagesMetadata(imgs),
     filesToUpload |-> FilesToUpload(imgs),
     imageIdsToDelete |-> deletions]

\* a render: the closures capture the current list; mapping over an
\* undefined entry throws and no effect runs; otherwise the effect hands
\* the change-set to handleImagesChange, which stores it
Render ==
    /\ rendered' = orderedImages'
    /\ aliased' = TRUE
    /\ crashed' = (UndefinedImg \in Range(orderedImages'))
    /\ imageUploaderData' =
          IF UndefinedImg \in Range(orderedImages')
          THEN imageUploaderData
          ELSE <<ImageUploaderChanges(orderedImages', imagesToDelete')>>
    /\ UNCHANGED <<actionVars, pageVars>>

Mount ==
    /\ ~isInitialized
    /\ ~crashed
    /\ seedEffect(existingImages)
    /\ last' = [op |-> "seed", a |-> Null, b |-> Null]
    /\ UNCHANGED <<imagesToDelete, revoked, nextUuid>>
    /\ Render

ExistingImagesChange ==
    /\ isInitialized
    /\ ~crashed
    /\ \E snap \in Snapshots :
          /\ snap # existingImages
          /\ seedEffect(snap)
    /\ last' = [op |-> "refresh", a |-> Null, b |-> Null]
    /\ UNCHANGED <<imagesToDelete, revoked, nextUuid>>
    /\ Render

(* ---- handleFileSelect ------------------------------------------------- *)
\* files.map((file, index) => ({...})): the images of n selected files
NewImage(index, closure) ==
    [id |-> Uuid(nextUuid + index), storage_id |-> Uuid(nextUuid + index),
     url |-> BlobUrl(nextUuid + index), order_index |-> NoOrderIndex,
     destacada |-> (Len(closure) = 0 /\ index = 0),
     isNew |-> TRUE, file |-> FileOf(nextUuid + index)]

\* mutant: only the length test of line 117, without the every() test
NewImagesLengthOnly(n, closure) ==
    [i \in 1..n |-> NewImage(i - 1, closure)]

NewImages(n, closure) ==
    LET mapped == [i \in 1..n |-> NewImage(i - 1, closure)]
    IN  IF n > 0 /\ \A i \in 1..Len(closure) : ~closure[i].destacada
        THEN SetFlag(mapped, 1, TRUE)
        ELSE mapped

handleFileSelect(n) ==
    /\ orderedImages' = orderedImages \o NewImages(n, rendered)
    /\ nextUuid' = nextUuid + n
    /\ last' = [op |-> "add", a |-> n, b |-> Null]
    /\ UNCHANGED <<imagesToDelete, isInitialized, existingImages, revoked,
                   seeded>>

(* ---- handleSetDestacada ---------------------------------------------- *)
\* mutant: the match is made on id instead of storage_id
MarkDestacadaById(prev, storage_id) ==
    [i \in 1..Len(prev) |->
        [prev[i] EXCEPT !.destacada = (prev[i].id = storage_id)]]

MarkDestacada(prev, storage_id) ==
    [i \in 1..Len(prev) |->
        [prev[i] EXCEPT !.destacada = (prev[i].storage_id = storage_id)]]

handleSetDestacada(storage_id) ==
    /\ orderedImages' = MarkDestacada(orderedImages, storage_id)
    /\ last' = [op |-> "setFeatured", a |-> storage_id, b |-> Null]
    /\ UNCHANGED <<imagesToDelete, isInitialized, existingImages, revoked,
                   nextUuid, seeded>>

(* ---- handleRemoveImage ----------------------------------------------- *)
\* mutant: no promotion after the featured image is removed
RemainingAfterNoPromotion(prev, imageToRemove) ==
    Filter(prev, imageToRemove.id)

\* mutant: the last remaining image is promoted instead of the first
RemainingAfterPromoteLast(prev, imageToRemove) ==
    LET remaining == Filter(prev, imageToRemove.id)
    IN  IF imageToRemove.destacada /\ Len(remaining) > 0
        THEN SetFlag(remaining, Len(remaining), TRUE)
        ELSE remaining

\* the updater of setOrderedImages
RemainingAfter(prev, imageToRemove) ==
    LET remaining == Filter(prev, imageToRemove.id)
    IN  IF imageToRemove.destacada /\ Len(remaining) > 0
        THEN SetFlag(remaining, 1, TRUE)
        ELSE remaining

\* the url of a new image is BlobUrl(n): n is its second component
RevokeObjectURL(url) == [revoked EXCEPT ![url[2]] = @ + 1]

\* mutant: the storage key is recorded in place of the row id
DeletionEntryKeyOnly(img) == [id |-> img.storage_id, storage_id |-> img.storage_id]

DeletionEntry(img) == [id |-> img.id, storage_id |-> img.storage_id]

handleRemoveImage(imageToRemove) ==
    /\ orderedImages' = RemainingAfter(orderedImages, imageToRemove)
    /\ IF imageToRemove.isNew
       THEN /\ revoked[imageToRemove.url[2]] < MaxRevoke
            /\ revoked' = RevokeObjectURL(imageToRemove.url)
            /\ imagesToDelete' = imagesToDelete
       ELSE /\ Len(imagesToDelete) < MaxDeletions
            /\ imagesToDelete' = Append(imagesToDelete,
                                        DeletionEntry(imageToRemove))
            /\ revoked' = revoked
    /\ last' = [op |-> "remove", a |-> imageToRemove, b |-> Null]
    /\ UNCHANGED <<isInitialized, existingImages, nextUuid, seeded>>

(* ---- onDragEnd ------------------------------------------------------- *)
\* over is Null when the item is dropped outside every sortable item
onDragEnd(active, over) ==
    /\ LET oldIndex == FindIndex(rendered, active)
           newIndex == FindIndex(rendered, over)
       IN  IF over = Null \/ active = over
           THEN orderedImages' = orderedImages
           ELSE IF oldIndex = 0 - 1 \/ newIndex = 0 - 1
                THEN orderedImages' = orderedImages
                ELSE orderedImages' = ArrayMove(orderedImages, oldIndex,
                                                newIndex)
    /\ last' = [op |-> "reorder", a |-> active, b |-> over]
    /\ UNCHANGED <<imagesToDelete, isInitialized, existingImages, revoked,
                   nextUuid, seeded>>

(* ---- the events of a session, each followed by its render ------------ *)
Ready == isInitialized /\ ~crashed

FileSelect ==
    /\ Ready
    /\ \E n \in 0..MaxFiles :
          /\ nextUuid + n - 1 <= MaxNew
          /\ handleFileSelect(n)
    /\ Render

SetDestacada ==
    /\ Ready
    /\ \E i \in 1..Len(rendered) : handleSetDestacada(rendered[i].storage_id)
    /\ Render

RemoveImage ==
    /\ Ready
    /\ \E i \in 1..Len(rendered) : handleRemoveImage(rendered[i])
    /\ Render

DragEnd ==
    /\ Ready
    /\ \E i \in 1..Len(rendered) :
          \E over \in {rendered[j].id : j \in 1..Len(rendered)} \cup {Null} :
              onDragEnd(rendered[i].id, over)
    /\ Render

Next ==
    \/ Mount
    \/ FileSelect
    \/ SetDestacada
    \/ RemoveImage
    \/ DragEnd

Spec == Init /\ [][Next]_vars

\* a session during which the parent passes new snapshots
NextRefresh ==
    \/ Next
    \/ ExistingImagesChange

SpecRefresh == Init /\ [][NextRefresh]_vars

\* the session of vehiculos.nuevo.tsx: it starts with an empty collection
SpecEmpty == InitEmpty /\ [][NextRefresh]_vars

(* ---- a session on three persisted rows ------------------------------- *)
\* a drag event may name any row of the snapshot, also one that was
\* removed since
DragEndAnyId ==
    /\ Ready
    /\ \E active \in {e.id : e \in seeded} :
          \E over \in {e.id : e \in seeded} \cup {Null} :
              onDragEnd(active, over)
    /\ Render

NextReorder ==
    \/ Mount
    \/ SetDestacada
    \/ RemoveImage
    \/ DragEndAnyId

SpecReorder == InitReorder /\ [][NextReorder]_vars

(* ---- handlers called again before the next render -------------------- *)
\* remaining[0].destacada = true writes the object itself: the closure
\* sees it while it still holds the objects of the list
PromotedInClosure(imageToRemove) ==
    LET remaining == Filter(orderedImages, imageToRemove.id)
    IN  IF aliased /\ imageToRemove.destacada /\ Len(remaining) > 0
        THEN [i \in 1..Len(rendered) |->
                 IF rendered[i].id = remaining[1].id
                 THEN [rendered[i] EXCEPT !.destacada = TRUE]
                 ELSE rendered[i]]
        ELSE rendered

FileSelectNoRender ==
    /\ Ready
    /\ \E n \in 1..MaxFiles :
          /\ nextUuid + n - 1 <= MaxNew
          /\ handleFileSelect(n)
    /\ UNCHANGED <<rendered, aliased, crashed, imageUploaderData>>
    /\ UNCHANGED <<actionVars, pageVars>>

SetDestacadaNoRender ==
    /\ Ready
    /\ \E i \in 1..Len(rendered) : handleSetDestacada(rendered[i].storage_id)
    /\ aliased' = FALSE
    /\ UNCHANGED <<rendered, crashed, imageUploaderData>>
    /\ UNCHANGED <<actionVars, pageVars>>

RemoveImageNoRender ==
    /\ Ready
    /\ \E i \in 1..Len(rendered) :
          /\ handleRemoveImage(rendered[i])
          /\ rendered' = PromotedInClosure(rendered[i])
    /\ UNCHANGED <<aliased, crashed, imageUploaderData>>
    /\ UNCHANGED <<actionVars, pageVars>>

Rerender ==
    /\ Ready
    /\ rendered # orderedImages
    /\ UNCHANGED <<orderedImages, imagesToDelete, isInitialized,
                   existingImages, revoked, nextUuid, seeded>>
    /\ Render
    /\ last' = [op |-> "render", a |-> Null, b |-> Null]

NextStale ==
    \/ Mount
    \/ FileSelectNoRender
    \/ SetDestacadaNoRender
    \/ RemoveImageNoRender
    \/ Rerender

\* a session whose handlers may run on the closure of an earlier render
SpecStale == Init /\ [][NextStale]_vars

\* a drag that ends before the render of an earlier change: the indexes
\* are those of the closure, arrayMove works on the current list and keeps
\* its objects. The session is followed up to the first undefined entry
\* arrayMove leaves in the list.
DragEndNoRender ==
    /\ Ready
    /\ UndefinedImg \notin Range(orderedImages)
    /\ \E i \in 1..Len(rendered) :
          \E over \in {rendered[j].id : j \in 1..Len(rendered)} \cup {Null} :
              onDragEnd(rendered[i].id, over)
    /\ UNCHANGED <<rendered, aliased, crashed, imageUploaderData>>
    /\ UNCHANGED <<actionVars, pageVars>>

NextStaleReorder ==
    \/ Mount
    \/ SetDestacadaNoRender
    \/ RemoveImageNoRender
    \/ DragEndNoRender
    \/ Rerender

\* the session on three persisted rows, with handlers that may run on the
\* closure of an earlier render
SpecStaleReorder == InitReorder /\ [][NextStaleReorder]_vars

(* ---- the action of vehiculos.nuevo.tsx ------------------------------- *)
\* the action is followed from the point where the session and the user
\* row have been found
orderedImagesMetadata == JsonParse(formData.orderedImagesMetadata).value
imageIdsToDelete == JsonParse(formData.imageIdsToDelete).value

\* the row of the insert into vehiculos
VehicleRow(fields) ==
    [id |-> NewVehicleId,
     url_img |-> Null,
     values |-> [f \in Fields |->
                    IF f \in NumericFields THEN Number(fields[f]).value
                    ELSE IF f = "placa" THEN Trim(fields[f].text)
                    ELSE fields[f].text]]

\* a promise: the call it waits for, the calls whose result has come
\* back and those of them that failed
Op(kind, index, at, issued, failed) ==
    [kind |-> kind, index |-> index, pc |-> at, issued |-> issued,
     failed |-> failed]

Positions(list, isNew) ==
    SelectSeq([i \in 1..Len(list) |-> i], LAMBDA i : list[i].isNew = isNew)

\* an async function runs up to its first await when it is called: an
\* upload whose file is not in the form has returned already
imageUploadPromises ==
    LET new == Positions(orderedImagesMetadata, TRUE)
    IN  [k \in 1..Len(new) |->
            IF orderedImagesMetadata[new[k]].storage_id \in formData.files
            THEN Op("create", new[k], "listBuckets", {}, {})
            ELSE Op("create", new[k], "fulfilled", {}, {"file"})]

updateOrderPromises ==
    LET old == Positions(orderedImagesMetadata, FALSE)
    IN  [k \in 1..Len(old) |-> Op("update", old[k], "update", {}, {})]

deletePromises ==
    [k \in 1..Len(imageIdsToDelete) |-> Op("delete", k, "remove", {}, {})]

Settled(op) == op.pc \in {"fulfilled", "rejected"}

\* mutant: the join no longer waits for every promise
AnySettled(promises) ==
    promises = <<>> \/ \E i \in 1..Len(promises) : Settled(promises[i])

\* mutant: the join waits until every promise is fulfilled
AllFulfilled(promises) ==
    \A i \in 1..Len(promises) : promises[i].pc = "fulfilled"

\* Promise.allSettled resolves once every promise has settled
AllSettled(promises) ==
    \A i \in 1..Len(promises) : Settled(promises[i])

\* mutant: Promise.all, which rejects when one of the promises does
PromiseAllResult(promises) ==
    IF \E i \in 1..Len(promises) : promises[i].pc = "rejected"
    THEN "rejected" ELSE "fulfilled"

\* Promise.allSettled never rejects
AllSettledResult(promises) == "fulfilled"

\* mutant: a failed upload is logged and the promise goes on
AfterUploadIgnored(uploadError) == "insert"

\* if (uploadError) throw uploadError
AfterUpload(uploadError) ==
    IF uploadError THEN "rejected" ELSE "insert"

\* mutant: a failed removal from storage is thrown
AfterRemoveThrow(removeError) ==
    IF removeError THEN "rejected" ELSE "delete"

\* the result of storage.remove is not read: the row deletion follows
AfterRemove(removeError) == "delete"

\* mutant: the first entry stands in when none is featured
FeaturedImageOrFirst(metadata) ==
    IF \E i \in 1..Len(metadata) : metadata[i].destacada
    THEN CHOOSE i \in 1..Len(metadata) :
            /\ metadata[i].destacada
            /\ \A j \in 1..(i - 1) : ~metadata[j].destacada
    ELSE IF Len(metadata) > 0 THEN 1 ELSE 0

\* orderedImagesMetadata.find(meta => meta.destacada === true): the
\* position of the entry found, 0 for undefined
FeaturedImage(metadata) ==
    IF \E i \in 1..Len(metadata) : metadata[i].destacada
    THEN CHOOSE i \in 1..Len(metadata) :
            /\ metadata[i].destacada
            /\ \A j \in 1..(i - 1) : ~metadata[j].destacada
    ELSE 0

\* featuredImageUrl; <<>> is the empty string
FeaturedImageUrl(meta) ==
    IF meta.isNew
    THEN PublicUrl(FilePath(NewVehicleId, meta.storage_id))
    ELSE IF meta.url = Undefined THEN <<>> ELSE meta.url

\* mutant: a failed update of url_img is thrown
AfterCoverWriteThrow(updateUrlError) ==
    IF updateUrlError THEN "error" ELSE "redirect"

\* updateUrlError is logged and the action redirects
AfterCoverWrite(updateUrlError) == "redirect"

Validate ==
    /\ pc = "validate"
    /\ IF ValidationErrors(formData.fields) # {}
       THEN /\ response' = [kind |-> "fieldErrors",
                            errors |-> ValidationErrors(formData.fields)]
            /\ pc' = "done"
       ELSE /\ response' = response
            /\ pc' = "parse"
    /\ UNCHANGED <<formData, vehiculos, images, bucket, ops, urlImgWrites,
                   consoleErrors>>
    /\ UNCHANGED <<clientVars, pageVars>>

\* the two JSON.parse calls; what they throw is caught at the end
Parse ==
    /\ pc = "parse"
    /\ IF /\ JsonParse(formData.orderedImagesMetadata).ok
          /\ JsonParse(formData.imageIdsToDelete).ok
       THEN /\ response' = response
            /\ pc' = "insertVehicle"
       ELSE /\ response' = [kind |-> "error", errors |-> {}]
            /\ pc' = "done"
    /\ UNCHANGED <<formData, vehiculos, images, bucket, ops, urlImgWrites,
                   consoleErrors>>
    /\ UNCHANGED <<clientVars, pageVars>>

\* the insert into vehiculos and, when it succeeds, the creation of the
\* promises
InsertVehicle ==
    /\ pc = "insertVehicle"
    /\ \E vehicleError \in BOOLEAN :
          IF vehicleError
          THEN /\ response' = [kind |-> "error", errors |-> {}]
               /\ pc' = "done"
               /\ UNCHANGED <<vehiculos, ops>>
          ELSE /\ vehiculos' = <<VehicleRow(formData.fields)>>
               /\ ops' = imageUploadPromises \o updateOrderPromises
                            \o deletePromises
               /\ pc' = "images"
               /\ response' = response
    /\ UNCHANGED <<formData, images, bucket, urlImgWrites,
                   consoleErrors>>
    /\ UNCHANGED <<clientVars, pageVars>>

\* one promise goes on while the action waits at Promise.allSettled
Running(i, at) ==
    /\ pc = "images"
    /\ i \in 1..Len(ops)
    /\ ops[i].pc = at

\* the result of a call has come back
Resolve(i, call, at, error) ==
    [ops EXCEPT ![i] = Op(@.kind, @.index, at, @.issued \cup {call},
                          IF error THEN @.failed \cup {call} ELSE @.failed)]

Reject(i, call) == Resolve(i, call, "rejected", TRUE)

\* console.error(text, error) inside promise i, for the call that failed;
\* the entry of the promise was printed by line 316 when it started
ConsoleError(i, call) == consoleErrors \cup {[call |-> call, op |-> i]}

\* storage.listBuckets(): an error or a list without the bucket is thrown
ListBuckets ==
    /\ \E i \in 1..Len(ops) :
          /\ Running(i, "listBuckets")
          /\ \E outcome \in {"ok", "error", "missing"} :
                IF outcome = "ok"
                THEN /\ ops' = Resolve(i, "listBuckets", "upload", FALSE)
                     /\ consoleErrors' = consoleErrors
                ELSE /\ ops' = Reject(i, "listBuckets")
                     /\ consoleErrors' = ConsoleError(i, "listBuckets")
    /\ UNCHANGED <<formData, pc, response, vehiculos, images, bucket,
                   urlImgWrites>>
    /\ UNCHANGED <<clientVars, pageVars>>

\* storage.upload(filePath, file, {upsert: false})
Upload ==
    /\ \E i \in 1..Len(ops) :
          /\ Running(i, "upload")
          /\ \E uploadError \in BOOLEAN :
                LET meta == orderedImagesMetadata[ops[i].index]
                    filePath == FilePath(NewVehicleId, meta.storage_id)
                IN  IF uploadError \/ filePath \in bucket
                    THEN /\ ops' = Resolve(i, "upload", AfterUpload(TRUE),
                                           TRUE)
                         /\ bucket' = bucket
                         /\ consoleErrors' = ConsoleError(i, "upload")
                    ELSE /\ ops' = Resolve(i, "upload", AfterUpload(FALSE),
                                           FALSE)
                         /\ bucket' = bucket \cup {filePath}
                         /\ consoleErrors' = consoleErrors
    /\ UNCHANGED <<formData, pc, response, vehiculos, images, urlImgWrites>>
    /\ UNCHANGED <<clientVars, pageVars>>

\* the insert into images of the row of an uploaded file
InsertImage ==
    /\ \E i \in 1..Len(ops) :
          /\ Running(i, "insert")
          /\ \E insertError \in BOOLEAN :
                LET meta == orderedImagesMetadata[ops[i].index]
                IN  IF insertError
                    THEN /\ ops' = Reject(i, "insert")
                         /\ images' = images
                         /\ consoleErrors' = ConsoleError(i, "insert")
                    ELSE /\ ops' = Resolve(i, "insert", "fulfilled", FALSE)
                         /\ images' = images \cup
                               {ImageRow(<<"inserted", ops[i].index>>,
                                         meta.storage_id, NewVehicleId,
                                         meta.order_index, meta.destacada)}
                         /\ consoleErrors' = consoleErrors
    /\ UNCHANGED <<formData, pc, response, vehiculos, bucket, urlImgWrites>>
    /\ UNCHANGED <<clientVars, pageVars>>

\* the update of order_index and destacada of a persisted row; its result
\* is returned as it is
UpdateImage ==
    /\ \E i \in 1..Len(ops) :
          /\ Running(i, "update")
          /\ \E updateError \in BOOLEAN :
                LET meta == orderedImagesMetadata[ops[i].index]
                IN  IF updateError
                    THEN /\ ops' = Resolve(i, "update", "fulfilled", TRUE)
                         /\ images' = images
                    ELSE /\ ops' = Resolve(i, "update", "fulfilled", FALSE)
                         /\ images' =
                               {IF r.id = meta.id
                                THEN [r EXCEPT
                                        !.order_index = Digits(meta.order_index),
                                        !.destacada =
                                            DestacadaText(meta.destacada)]
                                ELSE r : r \in images}
    /\ UNCHANGED <<formData, pc, response, vehiculos, bucket, urlImgWrites,
                   consoleErrors>>
    /\ UNCHANGED <<clientVars, pageVars>>

\* storage.remove([storagePath]) of a deletion
RemoveObject ==
    /\ \E i \in 1..Len(ops) :
          /\ Running(i, "remove")
          /\ \E removeError \in BOOLEAN :
                LET entry == imageIdsToDelete[ops[i].index]
                    storagePath == FilePath(NewVehicleId, entry.storage_id)
                IN  /\ ops' = Resolve(i, "remove", AfterRemove(removeError),
                                      removeError)
                    /\ bucket' = IF removeError THEN bucket
                                 ELSE bucket \ {storagePath}
    /\ UNCHANGED <<formData, pc, response, vehiculos, images, urlImgWrites,
                   consoleErrors>>
    /\ UNCHANGED <<clientVars, pageVars>>

\* the delete from images of a deletion
DeleteImage ==
    /\ \E i \in 1..Len(ops) :
          /\ Running(i, "delete")
          /\ \E deleteError \in BOOLEAN :
                LET entry == imageIdsToDelete[ops[i].index]
                IN  /\ ops' = Resolve(i, "delete", "fulfilled", deleteError)
                    /\ images' = IF deleteError THEN images
                                 ELSE {r \in images : r.id # entry.id}
    /\ UNCHANGED <<formData, pc, response, vehiculos, bucket, urlImgWrites,
                   consoleErrors>>
    /\ UNCHANGED <<clientVars, pageVars>>

\* await Promise.allSettled([...]) returns
AllSettledResolves ==
    /\ pc = "images"
    /\ AllSettled(ops)
    /\ IF AllSettledResult(ops) = "fulfilled"
       THEN /\ pc' = "cover"
            /\ response' = response
       ELSE /\ pc' = "done"
            /\ response' = [kind |-> "error", errors |-> {}]
    /\ UNCHANGED <<formData, vehiculos, images, bucket, ops, urlImgWrites,
                   consoleErrors>>
    /\ UNCHANGED <<clientVars, pageVars>>

\* step 5: the update of url_img, then the redirect
CoverImage ==
    /\ pc = "cover"
    /\ LET featuredImage == FeaturedImage(orderedImagesMetadata)
       IN  IF featuredImage = 0
           THEN /\ response' = [kind |-> "redirect", errors |-> {}]
                /\ UNCHANGED <<vehiculos, urlImgWrites>>
           ELSE LET featuredImageUrl ==
                      FeaturedImageUrl(orderedImagesMetadata[featuredImage])
                IN  IF featuredImageUrl = <<>>
                    THEN /\ response' = [kind |-> "redirect", errors |-> {}]
                         /\ UNCHANGED <<vehiculos, urlImgWrites>>
                    ELSE \E updateUrlError \in BOOLEAN :
                            /\ urlImgWrites' = urlImgWrites + 1
                            /\ vehiculos' =
                                  IF updateUrlError THEN vehiculos
                                  ELSE <<[vehiculos[1] EXCEPT
                                            !.url_img = featuredImageUrl]>>
                            /\ response' =
                                  [kind |-> AfterCoverWrite(updateUrlError),
                                   errors |-> {}]
    /\ pc' = "done"
    /\ UNCHANGED <<formData, images, bucket, ops,
                   consoleErrors>>
    /\ UNCHANGED <<clientVars, pageVars>>

NextAction ==
    \/ Validate
    \/ Parse
    \/ InsertVehicle
    \/ ListBuckets
    \/ Upload
    \/ InsertImage
    \/ UpdateImage
    \/ RemoveObject
    \/ DeleteImage
    \/ AllSettledResolves
    \/ CoverImage

\* a request reaches the action
InitAction ==
    /\ InitClient({<<>>})
    /\ \/ formData \in FilledRequests(FilledFields)
       \/ formData \in UnfilledRequests(MaxBadFields)
    /\ pc = "validate"
    /\ response = NoResponse
    /\ vehiculos = <<>>
    /\ images = InitialImages
    /\ bucket = InitialBucket
    /\ ops = <<>>
    /\ urlImgWrites = 0
    /\ consoleErrors = {}
    /\ PageIdle

SpecAction == InitAction /\ [][NextAction]_vars

\* every store call that was issued comes back, and the action goes on
\* whenever it can
SpecActionFair == SpecAction /\ WF_vars(NextAction)

(* ---- the page of vehiculos.nuevo.tsx --------------------------------- *)
\* the third step of the form is on display, the uploader in it
Displayed == location = Editor /\ currentStep = 3 /\ ~crashed

\* JSON.stringify of a list, as the text of a form field: the properties
\* whose value is undefined are left out and read back as undefined
JsonStringify(list) == Json(list)

\* the FormData handleSubmit builds: the button is enabled only when the
\* fields of the first two steps are all filled
SubmittedFormData(changes) ==
    [fields |-> FilledFields,
     orderedImagesMetadata |-> JsonStringify(changes.orderedImagesMetadata),
     imageIdsToDelete |-> JsonStringify(changes.imageIdsToDelete),
     files |-> {entry[1] : entry \in changes.filesToUpload}]

\* the uploader leaves the screen: its state is dropped, the previews it
\* created stay as they are
Unmounted(op) ==
    /\ orderedImages' = <<>>
    /\ imagesToDelete' = <<>>
    /\ isInitialized' = FALSE
    /\ rendered' = <<>>
    /\ aliased' = TRUE
    /\ seeded' = {}
    /\ last' = [op |-> op, a |-> Null, b |-> Null]
    /\ UNCHANGED <<existingImages, revoked, nextUuid, crashed>>

\* the first effects of the uploader once the third step is displayed;
\* they run before the user can do anything on that step
MountUploader ==
    /\ Displayed
    /\ Mount

\* the submit button of the third step; the run of the action that is
\* followed is the one of the first request of the session
handleSubmit ==
    /\ Displayed
    /\ Ready
    /\ imageUploaderData # <<>>
    /\ Len(imageUploaderData[1].orderedImagesMetadata) > 0
    /\ submits < MaxSubmits
    /\ showLoadingToast' = TRUE
    /\ submits' = submits + 1
    /\ IF submits = 0
       THEN /\ formData' = SubmittedFormData(imageUploaderData[1])
            /\ pc' = "validate"
       ELSE UNCHANGED <<formData, pc>>
    /\ UNCHANGED <<currentStep, navigateTimer, location, actionData>>
    /\ UNCHANGED <<response, vehiculos, images, bucket, ops, urlImgWrites,
                   consoleErrors>>
    /\ UNCHANGED clientVars

\* the answer of the action reaches the page, unless the page has left
\* or has submitted again in the meantime: a redirect is followed, any
\* other answer becomes actionData and the form is rendered with it
ActionReturns ==
    /\ pc = "done"
    /\ submits = 1
    /\ location = Editor
    /\ actionData = NoResponse
    /\ IF response.kind = "redirect"
       THEN /\ location' = Listing
            /\ Unmounted("leave")
            /\ imageUploaderData' = <<>>
            /\ UNCHANGED actionData
       ELSE /\ actionData' = response
            /\ UNCHANGED <<location, imageUploaderData>>
            /\ UNCHANGED <<orderedImages, imagesToDelete, isInitialized,
                           existingImages, revoked, nextUuid, rendered,
                           aliased, crashed, seeded, last>>
    /\ UNCHANGED <<currentStep, showLoadingToast, navigateTimer, submits>>
    /\ UNCHANGED actionVars

\* the timer of LoadingToast fires and calls handleToastComplete
handleToastComplete ==
    /\ location = Editor
    /\ showLoadingToast
    /\ showLoadingToast' = FALSE
    /\ navigateTimer' = TRUE
    /\ UNCHANGED <<currentStep, location, actionData, submits>>
    /\ UNCHANGED <<clientVars, actionVars>>

\* the timer of handleToastComplete fires: navigate('/vehiculos')
NavigateTimeout ==
    /\ navigateTimer
    /\ navigateTimer' = FALSE
    /\ location' = Listing
    /\ IF location = Editor
       THEN /\ Unmounted("leave")
            /\ imageUploaderData' = <<>>
       ELSE UNCHANGED clientVars
    /\ UNCHANGED <<currentStep, showLoadingToast, actionData, submits>>
    /\ UNCHANGED actionVars

\* the button Anterior of the third step
Anterior ==
    /\ Displayed
    /\ Ready
    /\ currentStep' = 2
    /\ Unmounted("back")
    /\ UNCHANGED <<showLoadingToast, navigateTimer, location, actionData,
                   submits, imageUploaderData>>
    /\ UNCHANGED actionVars

\* the button Siguiente of the second step
Siguiente ==
    /\ location = Editor
    /\ currentStep = 2
    /\ currentStep' = 3
    /\ UNCHANGED <<showLoadingToast, navigateTimer, location, actionData,
                   submits>>
    /\ UNCHANGED <<clientVars, actionVars>>

\* the page mounts the uploader without existingImages, so the action is
\* given new entries only: no update and no deletion promise is created
NextPage ==
    \/ MountUploader
    \/ FileSelect
    \/ SetDestacada
    \/ RemoveImage
    \/ DragEnd
    \/ Anterior
    \/ Siguiente
    \/ handleSubmit
    \/ handleToastComplete
    \/ NavigateTimeout
    \/ ActionReturns
    \/ Validate
    \/ Parse
    \/ InsertVehicle
    \/ ListBuckets
    \/ Upload
    \/ InsertImage
    \/ AllSettledResolves
    \/ CoverImage

SpecPage == InitEmpty /\ [][NextPage]_vars

\* the same page when whatever can happen next does happen in the end
SpecPageFair == SpecPage /\ WF_vars(NextPage)

(* ---- properties ------------------------------------------------------ *)
Ids(s) == {s[i].id : i \in 1..Len(s)}
Featured(s) == {i \in 1..Len(s) : s[i].destacada}
FeaturedIds(s) == {s[i].id : i \in Featured(s)}
HasStorageId(s, sid) == \E i \in 1..Len(s) : s[i].storage_id = sid

C2_SetFeaturedNotFoundIsNoOp ==
    [][(last'.op = "setFeatured" /\ ~HasStorageId(orderedImages, last'.a))
          => orderedImages' = orderedImages]_vars

\* C3: setFeatured with the storage_id of an image of the collection
\* leaves that image, and no other, featured; the order is kept.
C3_SetFeaturedMarksTheMatch ==
    [][(last'.op = "setFeatured" /\ HasStorageId(orderedImages, last'.a))
          => /\ Len(orderedImages') = Len(orderedImages)
             /\ \A i \in 1..Len(orderedImages) :
                   /\ orderedImages'[i].id = orderedImages[i].id
                   /\ orderedImages'[i].destacada
                        = (orderedImages[i].storage_id = last'.a)
             /\ Cardinality(Featured(orderedImages')) = 1]_vars

\* an existing image (row id differs from storage key) was made the
\* featured one of a collection that also holds a new image
C3_Witness ==
    /\ last.op = "setFeatured"
    /\ \E i, j \in 1..Len(orderedImages) :
          /\ orderedImages[i].isNew
          /\ ~orderedImages[j].isNew
          /\ orderedImages[j].id # orderedImages[j].storage_id
          /\ orderedImages[j].storage_id = last.a
          /\ orderedImages[j].destacada
          /\ ~orderedImages[i].destacada

\* C4 (as claimed): remove of an image that is no longer in the
\* collection changes neither the collection nor the pending deletions.
C4_RemoveNotFoundIsNoOp ==
    [][(last'.op = "remove" /\ last'.a.id \notin Ids(orderedImages))
          => /\ orderedImages' = orderedImages
             /\ imagesToDelete' = imagesToDelete]_vars

\* C5: the pending-deletion list holds exactly one entry {id, storage_id}
\* for each existing image that was removed, and nothing else.
RemovedExisting == {e \in seeded : e.id \notin Ids(orderedImages)}

C6_NewRemovalReleasesOnce ==
    /\ \A k \in 1..Len(imagesToDelete) : imagesToDelete[k].id[1] # "uuid"
    /\ \A n \in 1..MaxNew :
          revoked[n] = IF n < nextUuid /\ Uuid(n) \notin Ids(orderedImages)
                       THEN 1 ELSE 0

\* C7: removing the featured image makes the image now first the only
\* featured one; removing another image leaves the featured image as is.
C7_RemovePromotesFirst ==
    [][last'.op = "remove"
          => /\ last'.a.id \notin Ids(orderedImages')
             /\ IF last'.a.destacada
                THEN Len(orderedImages') > 0 => Featured(orderedImages') = {1}
                ELSE FeaturedIds(orderedImages') = FeaturedIds(orderedImages)]_vars

\* the featured image was removed, two or more images remain and
\* the first of the remaining ones is the featured one
C7_Witness ==
    /\ last.op = "remove"
    /\ last.a.destacada
    /\ Len(orderedImages) >= 2
    /\ Featured(orderedImages) = {1}

\* C8: addFiles marks its first new image featured exactly when the
\* collection had no featured image; no other new image is featured and
\* the images already there are untouched.
C8_AddFeaturesFirstIffNone ==
    [][last'.op = "add"
          => LET old == Len(orderedImages)
                 n == last'.a
             IN  /\ Len(orderedImages') = old + n
                 /\ SubSeq(orderedImages', 1, old) = orderedImages
                 /\ \A i \in 1..n :
                       orderedImages'[old + i].destacada
                         = (i = 1 /\ Featured(orderedImages) = {})]_vars

\* two files were added to a collection emptied by a removal: the first
\* is featured, the second is not
C8_Witness ==
    /\ last.op = "add"
    /\ last.a = 2
    /\ Len(orderedImages) = 2
    /\ imagesToDelete # <<>>
    /\ orderedImages[1].destacada
    /\ ~orderedImages[2].destacada

\* a file was added to a collection that had a featured image: it is not
\* featured
C8_WitnessOtherwise ==
    /\ last.op = "add"
    /\ last.a = 1
    /\ Len(orderedImages) >= 2
    /\ ~orderedImages[Len(orderedImages)].destacada

\* C9: once the initialisation effect has run, a change of the
\* existingImages prop leaves the collection and the pending deletions
\* as they are.
C9_SeedOnlyOnce ==
    [][last'.op = "refresh"
          => /\ orderedImages' = orderedImages
             /\ imagesToDelete' = imagesToDelete]_vars

\* a non-empty snapshot arrived after the user removed an existing image
\* and added a new one
C9_Witness ==
    /\ last.op = "refresh"
    /\ Len(existingImages) > 0
    /\ imagesToDelete # <<>>
    /\ \E i \in 1..Len(orderedImages) : orderedImages[i].isNew

\* C10 (as claimed): in a session started by seed, at most one image is
\* featured and a non-empty collection has exactly one.
C10_SingleFeaturedAfterSeed ==
    /\ Cardinality(Featured(orderedImages)) <= 1
    /\ Len(orderedImages) > 0 => Cardinality(Featured(orderedImages)) = 1

\* C11: every emitted change-set numbers its entries 1..n in the order of
\* the collection, entry i describing the image at position i, and a call
\* that leaves the collection and the pending deletions as they were is
\* followed by the same change-set.
C11_OrderIndexesContiguous ==
    [][/\ imageUploaderData' # <<>>
       /\ LET md == imageUploaderData'[1].orderedImagesMetadata
          IN  /\ Len(md) = Len(orderedImages')
              /\ \A i \in 1..Len(md) :
                    /\ md[i].order_index = i
                    /\ md[i].storage_id = orderedImages'[i].storage_id
       /\ (/\ orderedImages' = orderedImages
           /\ imagesToDelete' = imagesToDelete
           /\ imageUploaderData # <<>>)
             => imageUploaderData' = imageUploaderData]_vars

\* after a reorder of three images, the persisted one, stored with
\* order_index 10, is second and is emitted with order_index 2
C11_Witness ==
    /\ last.op = "reorder"
    /\ Len(orderedImages) = 3
    /\ ~orderedImages[2].isNew
    /\ orderedImages[2].order_index = 10
    /\ imageUploaderData # <<>>
    /\ imageUploaderData[1].orderedImagesMetadata[2].order_index = 2
    /\ imageUploaderData[1].orderedImagesMetadata[1].order_index = 1
    /\ imageUploaderData[1].orderedImagesMetadata[3].order_index = 3

\* C12: a reorder leaves the pending deletions as they are; when the drop
\* target is missing, is the dragged image itself, or either id is not in
\* the collection, the collection is unchanged; otherwise the dragged
\* image, flag included, takes the position the target had and the other
\* images keep their relative order and their flags.
C12_ReorderMovesToTarget ==
    [][last'.op = "reorder"
          => /\ imagesToDelete' = imagesToDelete
             /\ IF \/ last'.b = Null
                   \/ last'.a = last'.b
                   \/ last'.a \notin Ids(orderedImages)
                   \/ last'.b \notin Ids(orderedImages)
                THEN orderedImages' = orderedImages
                ELSE /\ Len(orderedImages') = Len(orderedImages)
                     /\ orderedImages'[FindIndex(orderedImages, last'.b) + 1]
                          = orderedImages[FindIndex(orderedImages, last'.a) + 1]
                     /\ Filter(orderedImages', last'.a)
                          = Filter(orderedImages, last'.a)]_vars

\* rows 1, 2, 3 with row 2 featured: row 3 was dragged onto row 1 and the
\* order is 3, 1, 2 with row 2 still the featured one and no deletion
C12_Witness ==
    /\ last.op = "reorder"
    /\ last.a = RowId(3)
    /\ last.b = RowId(1)
    /\ [i \in 1..Len(orderedImages) |-> orderedImages[i].id]
          = <<RowId(3), RowId(1), RowId(2)>>
    /\ FeaturedIds(orderedImages) = {RowId(2)}
    /\ imagesToDelete = <<>>
    /\ imageUploaderData[1].orderedImagesMetadata[3].destacada

(* ---- properties of the action ---------------------------------------- *)
StoresUntouched ==
    /\ vehiculos = <<>>
    /\ images = InitialImages
    /\ bucket = InitialBucket
    /\ ops = <<>>
    /\ urlImgWrites = 0
    /\ consoleErrors = {}

\* what the promise i was created for has been done
Effected(i) ==
    IF ops[i].kind = "create"
    THEN LET meta == orderedImagesMetadata[ops[i].index]
         IN  /\ FilePath(NewVehicleId, meta.storage_id) \in bucket
             /\ \E r \in images :
                   /\ r.storage_id = meta.storage_id
                   /\ r.vehicle_id = NewVehicleId
                   /\ r.order_index = Digits(meta.order_index)
                   /\ r.destacada = (IF meta.destacada THEN "true" ELSE "false")
    ELSE IF ops[i].kind = "update"
    THEN LET meta == orderedImagesMetadata[ops[i].index]
         IN  \E r \in images :
                /\ r.id = meta.id
                /\ r.order_index = Digits(meta.order_index)
                /\ r.destacada = (IF meta.destacada THEN "true" ELSE "false")
    ELSE \A r \in images : r.id # imageIdsToDelete[ops[i].index].id

\* C13: when the action has ended with the vehicle row inserted, it has
\* redirected, one promise per metadata entry and per deletion has
\* settled, and every promise none of whose calls failed has had its
\* effect, whatever happened to the others.
C13_SuccessWhateverFails ==
    (pc = "done" /\ vehiculos # <<>>)
       => /\ response.kind = "redirect"
          /\ Len(ops) = Len(orderedImagesMetadata) + Len(imageIdsToDelete)
          /\ \A i \in 1..Len(ops) :
                /\ ops[i].pc \in {"fulfilled", "rejected"}
                /\ ops[i].failed = {} => Effected(i)

\* the action redirected although one promise was rejected, while the
\* upload and the row of another image went through
C13_Witness ==
    /\ pc = "done"
    /\ response.kind = "redirect"
    /\ \E i, j \in 1..Len(ops) :
          /\ ops[i].pc = "rejected"
          /\ ops[j].kind = "create"
          /\ ops[j].failed = {}
          /\ Effected(j)

\* C14 (as claimed): url_img never holds the public URL of a path of the
\* new vehicle at which the bucket holds no object.
C14_CoverPointsAtStoredObject ==
    vehiculos # <<>>
       => \A i \in 1..Len(orderedImagesMetadata) :
             LET filePath == FilePath(NewVehicleId,
                                      orderedImagesMetadata[i].storage_id)
             IN  vehiculos[1].url_img = PublicUrl(filePath)
                    => filePath \in bucket

\* C15: url_img is written at most once, and when it has been written
\* every promise of the submission has settled.
C15_CoverWrittenOnceAfterSettle ==
    /\ urlImgWrites <= 1
    /\ urlImgWrites > 0
          => \A i \in 1..Len(ops) : ops[i].pc \in {"fulfilled", "rejected"}

\* url_img was written after two promises had settled, one of them
\* rejected
C15_Witness ==
    /\ urlImgWrites = 1
    /\ vehiculos[1].url_img # Null
    /\ Len(ops) >= 2
    /\ \E i \in 1..Len(ops) : ops[i].pc = "rejected"

\* C16: when no entry of orderedImagesMetadata is featured, url_img is
\* never written.
C16_NoFeaturedNoCoverWrite ==
    (\A i \in 1..Len(orderedImagesMetadata) :
        ~orderedImagesMetadata[i].destacada)
       => /\ urlImgWrites = 0
          /\ vehiculos # <<>> => vehiculos[1].url_img = Null

\* the action redirected for a request of two entries, none featured,
\* after an upload that went through
C16_Witness ==
    /\ pc = "done"
    /\ response.kind = "redirect"
    /\ Len(orderedImagesMetadata) = 2
    /\ \A i \in 1..2 : ~orderedImagesMetadata[i].destacada
    /\ \E i \in 1..Len(ops) : ops[i].kind = "create" /\ ops[i].failed = {}
    /\ urlImgWrites = 0

\* C17: when the action has ended after an update of url_img that failed,
\* it has redirected.
C17_CoverFailureStillRedirects ==
    (pc = "done" /\ urlImgWrites > 0 /\ vehiculos[1].url_img = Null)
       => response.kind = "redirect"

\* the update of url_img failed for a featured new image whose upload
\* went through, and the action redirected
C17_Witness ==
    /\ pc = "done"
    /\ urlImgWrites = 1
    /\ vehiculos[1].url_img = Null
    /\ response.kind = "redirect"
    /\ \E i \in 1..Len(ops) :
          /\ ops[i].kind = "create"
          /\ ops[i].failed = {}
          /\ orderedImagesMetadata[ops[i].index].destacada

\* C18: a deletion is never rejected, a deletion whose removal from
\* storage has come back goes on to the deletion of its row, and a settled
\* deletion has issued both calls, whichever of them failed.
C18_RemovalAndRowDeletionIndependent ==
    \A i \in 1..Len(ops) :
       ops[i].kind = "delete"
          => /\ ops[i].pc # "rejected"
             /\ "remove" \in ops[i].issued
                   => ops[i].pc = "delete" \/ "delete" \in ops[i].issued
             /\ ops[i].pc = "fulfilled"
                   => ops[i].issued = {"remove", "delete"}

\* the removal from storage failed and the row was deleted all the same
C18_Witness ==
    /\ pc = "done"
    /\ \E i \in 1..Len(ops) :
          /\ ops[i].kind = "delete"
          /\ ops[i].failed = {"remove"}
          /\ "delete" \in ops[i].issued
          /\ \A r \in images : r.id # imageIdsToDelete[ops[i].index].id

\* C21 (as claimed): every call of a promise that failed (listing the
\* buckets, upload, row insert, row update, removal from storage, row
\* deletion) has left one console.error line written by that promise.
C21_EveryFailureLogged ==
    \A i \in 1..Len(ops) :
       \A call \in ops[i].failed \ {"file"} :
          [call |-> call, op |-> i] \in consoleErrors

\* the page has submitted and the action has not returned yet
InFlight == submits > 0 /\ pc # "done" /\ location = Editor

\* C22 (as claimed): while a submission is in flight no call of addFiles,
\* remove, reorder or setFeatured changes the collection and submit() is
\* not called again.
C22_NoEditNoResubmitInFlight ==
    [][InFlight
          => /\ submits' = submits
             /\ last'.op \in {"add", "remove", "reorder", "setFeatured"}
                   => orderedImages' = orderedImages]_vars

\* the preview n has been created; an image of the collection holds it
Created(n) == n < nextUuid
Held(n) == \E i \in 1..Len(orderedImages) : orderedImages[i].url = BlobUrl(n)

\* C23 (as claimed): a preview that was created and is no longer held by
\* the collection, in a session that has not submitted, is revoked in
\* the end.
C23_PreviewsEventuallyReleased ==
    \A n \in 1..MaxNew :
       (Created(n) /\ ~Held(n) /\ submits = 0) ~> (revoked[n] > 0)

\* the flag the item with this id carries in the list, FALSE when the
\* list does not hold it
CurrentFlag(s, id) ==
    \E i \in 1..Len(s) : s[i].id = id /\ s[i].destacada

\* C25 (as claimed): a reorder or a removal whose ids were resolved on the
\* rendered list acts on the current list by id. After a reorder the
\* dragged item stands where the target item stood in the current list
\* (nothing moves when the current list lacks one of the two); after a
\* removal the list is the current one without the item of that id, and
\* its first item is promoted exactly when the removed item carries the
\* flag in the current list.
C25_StaleGesturesActById ==
    [][/\ last'.op = "reorder"
            => LET oldIndex == FindIndex(orderedImages, last'.a)
                   newIndex == FindIndex(orderedImages, last'.b)
               IN  orderedImages' =
                      IF \/ last'.b = Null
                         \/ last'.a = last'.b
                         \/ oldIndex = 0 - 1
                         \/ newIndex = 0 - 1
                      THEN orderedImages
                      ELSE ArrayMove(orderedImages, oldIndex, newIndex)
       /\ last'.op = "remove"
            => LET remaining == Filter(orderedImages, last'.a.id)
               IN  orderedImages' =
                      IF /\ CurrentFlag(orderedImages, last'.a.id)
                         /\ Len(remaining) > 0
                      THEN SetFlag(remaining, 1, TRUE)
                      ELSE remaining]_vars

\* C26: in the change-set the component hands over, the keys of
\* filesToUpload are the storage ids of the metadata entries with isNew,
\* each key once and with a file; in the form handleSubmit builds from it
\* the files are those of the new entries the action reads back from the
\* JSON field, and no entry with isNew false has a file.
C26_FilesMatchNewEntries ==
    imageUploaderData # <<>> =>
       LET changes == imageUploaderData[1]
           request == SubmittedFormData(changes)
           parsed == JsonParse(request.orderedImagesMetadata).value
       IN  /\ {entry[1] : entry \in changes.filesToUpload}
                = NewStorageIds(changes.orderedImagesMetadata)
           /\ \A e1, e2 \in changes.filesToUpload :
                 /\ e1[2] # NoFile
                 /\ e1[1] = e2[1] => e1 = e2
           /\ request.files = NewStorageIds(parsed)
           /\ \A i \in 1..Len(parsed) :
                 ~parsed[i].isNew => parsed[i].storage_id \notin request.files

\* a change-set of a persisted image and a new one: one file travels
C26_Witness ==
    /\ imageUploaderData # <<>>
    /\ \E i, j \in 1..Len(imageUploaderData[1].orderedImagesMetadata) :
          /\ imageUploaderData[1].orderedImagesMetadata[i].isNew
          /\ ~imageUploaderData[1].orderedImagesMetadata[j].isNew
    /\ Cardinality(imageUploaderData[1].filesToUpload) = 1

C28_SubmissionSettles ==
    (vehiculos # <<>>)
       ~> (/\ pc = "done"
           /\ \A i \in 1..Len(ops) : Settled(ops[i])
           /\ response # NoResponse)

\* the action has ended although every upload and every row update of at
\* least two such promises was rejected
C28_Witness ==
    /\ pc = "done"
    /\ vehiculos # <<>>
    /\ response # NoResponse
    /\ Cardinality({i \in 1..Len(ops) : ops[i].pc = "rejected"}) >= 2
    /\ \A i \in 1..Len(ops) :
          ops[i].kind # "delete" => ops[i].pc = "rejected"

\* the rows of the new vehicle stored as featured
FeaturedRows ==
    {r \in images : r.vehicle_id = NewVehicleId /\ r.destacada = "true"}

\* C29 (as claimed): when the action has ended on a request with at most
\* one featured entry, at most one image row of the new vehicle is
\* featured, and a url_img that was written is the url of that row.
C29_CoverIsTheFeaturedRow ==
    (/\ pc = "done"
     /\ vehiculos # <<>>
     /\ Cardinality({i \in 1..Len(orderedImagesMetadata) :
                        orderedImagesMetadata[i].destacada}) <= 1)
       => /\ Cardinality(FeaturedRows) <= 1
          /\ vehiculos[1].url_img # Null
                => \E r \in FeaturedRows : r.url = vehiculos[1].url_img

\* C30 (as claimed): the page is at the listing only when the action has
\* answered with the redirect, and while an error answer of the action
\* is held the editor is still the page displayed.
C30_LeavesOnlyOnSuccess ==
    /\ location = Listing => (pc = "done" /\ response.kind = "redirect")
    /\ actionData # NoResponse => location = Editor

\* the rows of images the submission has inserted for entry k of the
\* metadata
InsertedRows(k) ==
    {r \in images : /\ r.vehicle_id = NewVehicleId
                    /\ r.storage_id = orderedImagesMetadata[k].storage_id}

\* C24: at every point of the action, every image row of the new vehicle
\* has its object in the bucket, a promise asks for the row insert only
\* after its upload came back without error, and an entry whose file is
\* not in the request makes no call and gets no row.
C24_RowOnlyAfterUpload ==
    /\ \A r \in images :
          r.vehicle_id = NewVehicleId
             => FilePath(NewVehicleId, r.storage_id) \in bucket
    /\ \A i \in 1..Len(ops) :
          ops[i].kind = "create"
             => /\ (ops[i].pc = "insert" \/ "insert" \in ops[i].issued)
                      => "upload" \in ops[i].issued \ ops[i].failed
                /\ "file" \in ops[i].failed
                      => /\ ops[i].issued = {}
                         /\ InsertedRows(ops[i].index) = {}

\* the action has ended: of two new entries one has its object and its
\* row, the other, whose upload failed, has neither
C24_Witness ==
    /\ pc = "done"
    /\ \E i, j \in 1..Len(ops) :
          /\ ops[i].kind = "create"
          /\ ops[i].pc = "fulfilled"
          /\ InsertedRows(ops[i].index) # {}
          /\ ops[j].kind = "create"
          /\ "upload" \in ops[j].failed
          /\ InsertedRows(ops[j].index) = {}
          /\ FilePath(NewVehicleId,
                      orderedImagesMetadata[ops[j].index].storage_id)
                \notin bucket

\* a field the request leaves out or sends empty
Missing(raw) == ~raw.present \/ raw.text = <<>>

\* the text of a decimal numeral
IsNumeral(text) ==
    /\ text # <<>>
    /\ \A i \in 1..Len(text) : text[i] \in {DigitChars[d] : d \in 1..10}

\* the required fields that are missing (for placa: blank) or not numeric
BadFields ==
    {f \in StringFields : Missing(formData.fields[f])}
      \cup {f \in {"placa"} :
               \/ Missing(formData.fields[f])
               \/ \A i \in 1..Len(formData.fields[f].text) :
                     formData.fields[f].text[i] = " "}
      \cup {f \in NumericFields :
               \/ Missing(formData.fields[f])
               \/ ~IsNumeral(formData.fields[f].text)}

MalformedPayload ==
    \/ (formData.orderedImagesMetadata.present
          /\ ~formData.orderedImagesMetadata.wellFormed)
    \/ (formData.imageIdsToDelete.present
          /\ ~formData.imageIdsToDelete.wellFormed)

\* C20 (as claimed): when orderedImagesMetadata or imageIdsToDelete does
\* not parse, no store is ever touched and the action ends with the single
\* top-level error.
C20_MalformedPayloadIsFatal ==
    MalformedPayload
       => /\ StoresUntouched
          /\ pc = "done" => response.kind = "error"

\* C20 (amended): when orderedImagesMetadata or imageIdsToDelete does not
\* parse, no store is ever touched; the action ends with the single
\* top-level error when the parent fields pass validation, and with the
\* field-keyed error map when they do not.
C20_MalformedPayloadIsFatalAfterValidation ==
    MalformedPayload
       => /\ StoresUntouched
          /\ pc = "done"
                => response.kind = IF BadFields = {} THEN "error"
                                   ELSE "fieldErrors"

\* a well-filled form whose imageIdsToDelete does not parse, sent with a
\* list of two metadata entries, was answered with the top-level error
C20_Witness ==
    /\ pc = "done"
    /\ BadFields = {}
    /\ ~formData.imageIdsToDelete.wellFormed
    /\ Len(orderedImagesMetadata) = 2
    /\ response.kind = "error"
    /\ StoresUntouched

====
